---- MODULE Spec2Model ----
(***************************************************************************)
(* A model of src/main.rs: the line decoder (Instruction::from_str), the   *)
(* stack machine (run_program), bounded point addition (impl Add for       *)
(* Point), the grid evaluator and the cloud counter of main, and the       *)
(* recursive flood fill grow_cloud.                                        *)
(***************************************************************************)
EXTENDS Integers, Sequences, FiniteSets, TLC

(***************************************************************************)
(* Bounds of the model.  GridSize stands for the extent 30 of every axis   *)
(* of the grid; the other bounds limit the inputs that are enumerated.     *)
(***************************************************************************)
GridSize == 2
MaxActive == 3

(***************************************************************************)
(* i32 arithmetic.  `a + b` on i32 panics on overflow when the build has   *)
(* overflow checks (debug profile) and wraps modulo 2^32 otherwise         *)
(* (release profile).  All intermediate values stay inside the i32 range.  *)
(***************************************************************************)
I32Max == 2147483647
I32Min == (-I32Max) - 1

AddOverflows(a, b) ==
    \/ b > 0 /\ a > I32Max - b
    \/ b < 0 /\ a < I32Min - b

WrappingAdd(a, b) ==
    IF b > 0 /\ a > I32Max - b
    THEN (a - I32Max - 1) + (b - I32Max - 1)
    ELSE IF b < 0 /\ a < I32Min - b
    THEN (a + I32Max + 1) + (b + I32Max + 1)
    ELSE a + b

(***************************************************************************)
(* Text.  A line is a sequence of one-character strings.                   *)
(***************************************************************************)
UpperCase == <<"A","B","C","D","E","F","G","H","I","J","K","L","M",
               "N","O","P","Q","R","S","T","U","V","W","X","Y","Z">>
LowerCase == <<"a","b","c","d","e","f","g","h","i","j","k","l","m",
               "n","o","p","q","r","s","t","u","v","w","x","y","z">>
Digits == <<"0","1","2","3","4","5","6","7","8","9">>

\* u8::to_ascii_lowercase, applied to every character by str::to_ascii_lowercase
to_ascii_lowercase_omitted(s) == s
to_ascii_lowercase(s) ==
    [i \in 1..Len(s) |->
        IF \E k \in 1..26 : UpperCase[k] = s[i]
        THEN LowerCase[CHOOSE k \in 1..26 : UpperCase[k] = s[i]]
        ELSE s[i]]

\* str::split(' '): every piece between single spaces, empty pieces included
RECURSIVE split(_)
split(s) ==
    IF \A i \in 1..Len(s) : s[i] # " "
    THEN <<s>>
    ELSE LET i == CHOOSE j \in 1..Len(s) :
                      s[j] = " " /\ \A k \in 1..(j-1) : s[k] # " "
         IN  <<SubSeq(s, 1, i-1)>> \o split(SubSeq(s, i+1, Len(s)))

IsDigit(c) == \E k \in 1..10 : Digits[k] = c
DigitValue(c) == (CHOOSE k \in 1..10 : Digits[k] = c) - 1

\* the checked accumulation of <i32 as FromStr>::from_str over the digits
\* ds[i..]; neg tells whether digits are subtracted.  Err is [ok |-> FALSE].
RECURSIVE parse_digits(_, _, _, _)
parse_digits(ds, i, acc, neg) ==
    IF i > Len(ds) THEN [ok |-> TRUE, num |-> acc]
    ELSE IF ~IsDigit(ds[i]) THEN [ok |-> FALSE, num |-> 0]
    ELSE LET d == DigitValue(ds[i]) IN
         IF neg
         THEN IF acc < (I32Min \div 10) + 1 \/ acc * 10 < I32Min + d
              THEN [ok |-> FALSE, num |-> 0]
              ELSE parse_digits(ds, i+1, acc * 10 - d, neg)
         ELSE IF acc > I32Max \div 10 \/ acc * 10 > I32Max - d
              THEN [ok |-> FALSE, num |-> 0]
              ELSE parse_digits(ds, i+1, acc * 10 + d, neg)

\* str::parse::<i32>(): optional sign, at least one digit, no overflow
parse_i32(s) ==
    IF Len(s) = 0 THEN [ok |-> FALSE, num |-> 0]
    ELSE IF s[1] = "-" \/ s[1] = "+"
    THEN IF Len(s) = 1 THEN [ok |-> FALSE, num |-> 0]
         ELSE parse_digits(s, 2, 0, s[1] = "-")
    ELSE parse_digits(s, 1, 0, FALSE)

(***************************************************************************)
(* Instructions and values.                                                *)
(***************************************************************************)
ValueX == [kind |-> "X", num |-> 0]
ValueY == [kind |-> "Y", num |-> 0]
ValueZ == [kind |-> "Z", num |-> 0]
ValueNum(n) == [kind |-> "Num", num |-> n]

Push(v) == [op |-> "Push", value |-> v, off |-> 0]
AddInstr == [op |-> "Add", value |-> ValueNum(0), off |-> 0]
Jmpos(n) == [op |-> "Jmpos", value |-> ValueNum(0), off |-> n]
Ret == [op |-> "Ret", value |-> ValueNum(0), off |-> 0]
\* the outcome of a decode that panics (unwrap on None or Err, or panic!)
DecodePanic == [op |-> "panic", value |-> ValueNum(0), off |-> 0]

TokPush == <<"p","u","s","h">>
TokAdd == <<"a","d","d">>
TokJmpos == <<"j","m","p","o","s">>
TokRet == <<"r","e","t">>

from_str(input) ==
    LET split_input == split(input)
        first == split_input[1]
    IN  IF first = TokPush
        THEN IF Len(split_input) < 2 THEN DecodePanic
             ELSE LET t == to_ascii_lowercase(split_input[2]) IN
                  IF t = <<"x">> THEN Push(ValueX)
                  ELSE IF t = <<"y">> THEN Push(ValueY)
                  ELSE IF t = <<"z">> THEN Push(ValueZ)
                  ELSE LET r == parse_i32(t) IN
                       IF r.ok THEN Push(ValueNum(r.num)) ELSE DecodePanic
        ELSE IF first = TokAdd THEN AddInstr
        ELSE IF first = TokJmpos
        THEN IF Len(split_input) < 2 THEN DecodePanic
             ELSE LET r == parse_i32(split_input[2]) IN
                  IF r.ok THEN Jmpos(r.num) ELSE DecodePanic
        ELSE IF first = TokRet THEN Ret
        ELSE DecodePanic

(***************************************************************************)
(* Points and grids.  A grid is a function from the points of the          *)
(* coordinate space to values; the source's arrays have extent 30.         *)
(***************************************************************************)
Point(x, y, z) == [x |-> x, y |-> y, z |-> z]
Axis == 0..(GridSize - 1)
GridPoints == {Point(x, y, z) : x \in Axis, y \in Axis, z \in Axis}
NumCells == GridSize * GridSize * GridSize

\* the k-th point (k from 0) of `for x in 0..30 { for y in 0..30 { for z in 0..30`
LoopPoint(k) ==
    Point(k \div (GridSize * GridSize), (k \div GridSize) % GridSize, k % GridSize)

AllFalse == [p \in GridPoints |-> FALSE]

(***************************************************************************)
(* The stack machine: one iteration of the loop of run_program.  The       *)
(* stack's top is its last element.  The result says whether the loop      *)
(* goes on ("continue"), returns ("return", with the value) or panics      *)
(* ("panic", with the kind of the panic).                                  *)
(***************************************************************************)
PanicIndex == "index out of bounds"
PanicUnwrap == "unwrap on None"
PanicOverflow == "arithmetic overflow"
PanicDecode == "decode"

Continue(c, st) == [kind |-> "continue", c |-> c, st |-> st, value |-> 0, panic |-> "none"]
Return(c, st, v) == [kind |-> "return", c |-> c, st |-> st, value |-> v, panic |-> "none"]
Panic(c, st, why) == [kind |-> "panic", c |-> c, st |-> st, value |-> 0, panic |-> why]

Pop(st) == SubSeq(st, 1, Len(st) - 1)
Top(st) == st[Len(st)]

\* `pc += 1` at the end of the loop body
advance(c, st, checks) ==
    IF AddOverflows(c, 1)
    THEN IF checks THEN Panic(c, st, PanicOverflow)
         ELSE Continue(WrappingAdd(c, 1), st)
    ELSE Continue(c + 1, st)

operand(value, pt) ==
    IF value.kind = "X" THEN pt.x
    ELSE IF value.kind = "Y" THEN pt.y
    ELSE IF value.kind = "Z" THEN pt.z
    ELSE value.num

\* Instruction::Push(value): the value pushed, `pc += 1`
step_push(ins, pt, c, st, checks) ==
    advance(c, Append(st, operand(ins.value, pt)), checks)

\* Instruction::Add: two pops, the push of `x + y`, `pc += 1`
step_add(c, st, checks) ==
    IF Len(st) = 0 THEN Panic(c, st, PanicUnwrap)
    ELSE IF Len(st) = 1 THEN Panic(c, Pop(st), PanicUnwrap)
    ELSE LET x == Top(st)
             y == Top(Pop(st))
             rest == Pop(Pop(st))
         IN  IF AddOverflows(x, y)
             THEN IF checks THEN Panic(c, rest, PanicOverflow)
                  ELSE advance(c, Append(rest, WrappingAdd(x, y)), checks)
             ELSE advance(c, Append(rest, x + y), checks)

\* the test `stack.pop().unwrap() >= 0` of Jmpos
jmpos_taken_strict(v) == v > 0
jmpos_taken(v) == v >= 0

\* a Jmpos that refuses to jump backwards
step_jmpos_forward_only(ins, c, st, checks) ==
    IF Len(st) = 0 THEN Panic(c, st, PanicUnwrap)
    ELSE IF ins.off < 0 THEN Panic(c, Pop(st), PanicIndex)
    ELSE IF jmpos_taken(Top(st))
    THEN IF AddOverflows(c, ins.off)
         THEN IF checks THEN Panic(c, Pop(st), PanicOverflow)
              ELSE advance(WrappingAdd(c, ins.off), Pop(st), checks)
         ELSE advance(c + ins.off, Pop(st), checks)
    ELSE advance(c, Pop(st), checks)

\* Instruction::Jmpos(v): one pop, `pc += v` when the value is >= 0, `pc += 1`
step_jmpos(ins, c, st, checks) ==
    IF Len(st) = 0 THEN Panic(c, st, PanicUnwrap)
    ELSE IF jmpos_taken(Top(st))
    THEN IF AddOverflows(c, ins.off)
         THEN IF checks THEN Panic(c, Pop(st), PanicOverflow)
              ELSE advance(WrappingAdd(c, ins.off), Pop(st), checks)
         ELSE advance(c + ins.off, Pop(st), checks)
    ELSE advance(c, Pop(st), checks)

\* Instruction::Ret: `return stack.pop().unwrap()`
step_ret_or_default(c, st) ==
    IF Len(st) = 0 THEN Return(c, st, 0)
    ELSE Return(c, Pop(st), Top(st))
step_ret(c, st) ==
    IF Len(st) = 0 THEN Panic(c, st, PanicUnwrap)
    ELSE Return(c, Pop(st), Top(st))

\* `&program[pc as usize]`: a negative counter becomes a huge index
fetch_in_range(prog, c) == ~(c < 0 \/ c >= Len(prog))

run_program_step(prog, pt, c, st, checks) ==
    IF ~fetch_in_range(prog, c) THEN Panic(c, st, PanicIndex)
    ELSE LET ins == prog[c + 1] IN
         IF ins.op = "Push" THEN step_push(ins, pt, c, st, checks)
         ELSE IF ins.op = "Add" THEN step_add(c, st, checks)
         ELSE IF ins.op = "Jmpos" THEN step_jmpos(ins, c, st, checks)
         ELSE step_ret(c, st)

\* `let mut pc = 0;` and `let mut stack = vec![];` at the entry of run_program
fresh_pc(c) == 0
fresh_stack_kept(st) == st
fresh_stack(st) == << >>

(***************************************************************************)
(* Bounded point addition: impl Add for Point.  The three sums are i32     *)
(* additions; the result is Some(new_point), None, or a panic of the       *)
(* addition when the build checks overflow.                                *)
(***************************************************************************)
Some(p) == [kind |-> "Some", point |-> p]
None == [kind |-> "None", point |-> Point(0, 0, 0)]
AddPanic == [kind |-> "panic", point |-> Point(0, 0, 0)]

in_range_inclusive(v) == ~(v < 0 \/ v > GridSize)
in_range(v) == ~(v < 0 \/ v >= GridSize)

add(self, rhs, checks) ==
    IF checks /\ (\/ AddOverflows(rhs.x, self.x)
                  \/ AddOverflows(rhs.y, self.y)
                  \/ AddOverflows(rhs.z, self.z))
    THEN AddPanic
    ELSE LET new_point == Point(WrappingAdd(rhs.x, self.x),
                                WrappingAdd(rhs.y, self.y),
                                WrappingAdd(rhs.z, self.z))
         IN  IF ~in_range(new_point.x) THEN None
             ELSE IF ~in_range(new_point.y) THEN None
             ELSE IF ~in_range(new_point.z) THEN None
             ELSE Some(new_point)

CARDINALS_with_diagonal ==
    << Point(1, 0, 0), Point(-1, 0, 0),
       Point(0, 1, 0), Point(0, -1, 0),
       Point(0, 0, 1), Point(0, 0, -1), Point(1, 1, 0) >>
CARDINALS_without_last ==
    << Point(1, 0, 0), Point(-1, 0, 0),
       Point(0, 1, 0), Point(0, -1, 0),
       Point(0, 0, 1) >>
CARDINALS == << Point(1, 0, 0), Point(-1, 0, 0),
                Point(0, 1, 0), Point(0, -1, 0),
                Point(0, 0, 1), Point(0, 0, -1) >>

(***************************************************************************)
(* State.                                                                  *)
(***************************************************************************)
VARIABLES
    overflow_checks,    \* the build checks integer overflow (debug profile)
    program_text,       \* the lines of input_program.txt
    program,            \* the instructions decoded so far
    at,                 \* where main is: "decode", "eval", "run", "count", "done", "panicked"
    panic,              \* the kind of the panic that ended the run, or "none"
    calibration_number,
    grid,
    xyz,                \* the evaluator's loops: index of the next coordinate
    point,              \* run_program: its argument
    pc,                 \* run_program: its counter
    stack,              \* run_program: its stack
    output,             \* the lines printed so far
    clouds,
    considered_points,
    xyz2,               \* the counter's loops: index of the next coordinate
    frames,             \* the active calls of grow_cloud, innermost last
    returned_clouds,    \* history: the lists that grow_cloud returned to main
    results,            \* history: what run_program returned at each point
    runs,               \* history: how many times run_program was called at each point
    probe,              \* harness of run_program: the point under observation
    outcomes,           \* harness of run_program: the outcomes seen at probe
    history,            \* harness of run_program: the calls completed so far, in short
    line,               \* harness of from_str: its argument
    decoded,            \* harness of from_str: its result
    add_lhs, add_rhs, add_out   \* harness of Point + Point: operands and result

vars == << overflow_checks, program_text, program, at, panic, calibration_number,
           grid, xyz, point, pc, stack, output, clouds, returned_clouds, considered_points, xyz2,
           frames, results, runs, probe, outcomes, history, line, decoded,
           add_lhs, add_rhs, add_out >>

machine_vars == << point, pc, stack >>
eval_vars == << calibration_number, grid, xyz, results, runs >>
count_vars == << clouds, considered_points, xyz2, frames, returned_clouds >>
run_harness_vars == << probe, outcomes, history >>
decode_harness_vars == << line, decoded >>
add_harness_vars == << add_lhs, add_rhs, add_out >>

NoResult == [returned |-> FALSE, value |-> 0]
Returned(v) == [returned |-> TRUE, value |-> v]

(***************************************************************************)
(* Program texts: the listings the model runs.                             *)
(***************************************************************************)
\* push 5 / push 3 / add / ret: 8 at every point
TextConst8 ==
    << <<"p","u","s","h"," ","5">>,
       <<"p","u","s","h"," ","3">>,
       <<"a","d","d">>,
       <<"r","e","t">> >>

\* push x / push y / add / jmpos 1 / push 0 / ret / push 1 / ret
TextBranch ==
    << <<"p","u","s","h"," ","x">>,
       <<"p","u","s","h"," ","y">>,
       <<"a","d","d">>,
       <<"j","m","p","o","s"," ","1">>,
       <<"p","u","s","h"," ","0">>,
       <<"r","e","t">>,
       <<"p","u","s","h"," ","1">>,
       <<"r","e","t">> >>

\* push X / push -1 / add / ret: x - 1, so 0 or below for x <= 1
TextXMinus1 ==
    << <<"p","u","s","h"," ","X">>,
       <<"p","u","s","h"," ","-","1">>,
       <<"a","d","d">>,
       <<"r","e","t">> >>

\* x + y + z - 1
TextSumMinus1 ==
    << <<"p","u","s","h"," ","x">>,
       <<"p","u","s","h"," ","y">>,
       <<"a","d","d">>,
       <<"p","u","s","h"," ","Z">>,
       <<"a","d","d">>,
       <<"p","u","s","h"," ","-","1">>,
       <<"a","d","d">>,
       <<"r","e","t">> >>

\* 1 where x = 0 and y = 0, 2 where x >= 1 and y >= 1, -3 elsewhere
TextTwoClouds ==
    << <<"p","u","s","h"," ","x">>,
       <<"p","u","s","h"," ","-","1">>,
       <<"a","d","d">>,
       <<"j","m","p","o","s"," ","6">>,
       <<"p","u","s","h"," ","y">>,
       <<"p","u","s","h"," ","-","1">>,
       <<"a","d","d">>,
       <<"j","m","p","o","s"," ","6">>,
       <<"p","u","s","h"," ","1">>,
       <<"r","e","t">>,
       <<"p","u","s","h"," ","y">>,
       <<"p","u","s","h"," ","-","1">>,
       <<"a","d","d">>,
       <<"j","m","p","o","s"," ","2">>,
       <<"p","u","s","h"," ","-","3">>,
       <<"r","e","t">>,
       <<"p","u","s","h"," ","2">>,
       <<"r","e","t">> >>

\* push 268435456 / ret: 2^28 at every point
TextBig ==
    << <<"p","u","s","h"," ","2","6","8","4","3","5","4","5","6">>,
       <<"r","e","t">> >>

\* i32::MAX + z
TextAddOverflow ==
    << <<"p","u","s","h"," ","2","1","4","7","4","8","3","6","4","7">>,
       <<"p","u","s","h"," ","z">>,
       <<"a","d","d">>,
       <<"r","e","t">> >>

\* 1 where x = 0; where x >= 1 the jump lands on an add with an empty stack
TextFaultLater ==
    << <<"p","u","s","h"," ","x">>,
       <<"p","u","s","h"," ","-","1">>,
       <<"a","d","d">>,
       <<"j","m","p","o","s"," ","2">>,
       <<"p","u","s","h"," ","+","1">>,
       <<"r","e","t">>,
       <<"a","d","d">> >>

\* 3 where y = 0; where y >= 1 the jump makes the counter negative
TextNegativeJump ==
    << <<"p","u","s","h"," ","y">>,
       <<"p","u","s","h"," ","-","1">>,
       <<"a","d","d">>,
       <<"j","m","p","o","s"," ","-","6">>,
       <<"p","u","s","h"," ","3">>,
       <<"r","e","t">> >>

\* no ret: the counter runs past the last instruction
TextFallOff ==
    << <<"p","u","s","h"," ","z">>,
       <<"j","m","p","o","s"," ","0">>,
       <<"p","u","s","h"," ","7">> >>

\* 1 where x = 0, leaving 4 on the stack; where x >= 1 an add with one value
TextStale ==
    << <<"p","u","s","h"," ","4">>,
       <<"p","u","s","h"," ","x">>,
       <<"p","u","s","h"," ","-","1">>,
       <<"a","d","d">>,
       <<"j","m","p","o","s"," ","2">>,
       <<"p","u","s","h"," ","1">>,
       <<"r","e","t">>,
       <<"a","d","d">>,
       <<"r","e","t">> >>

\* push 0 / jmpos -2: a cycle that never returns
TextLoop ==
    << <<"p","u","s","h"," ","0">>,
       <<"j","m","p","o","s"," ","-","2">> >>

\* an unrecognised opcode in the first line
TextBadFirst ==
    << <<"m","u","l","t","i","p","l","y">>,
       <<"p","u","s","h"," ","1">>,
       <<"r","e","t">> >>

\* a non-integer operand in a middle line
TextBadMiddle ==
    << <<"p","u","s","h"," ","1">>,
       <<"j","m","p","o","s"," ","a","b","c">>,
       <<"r","e","t">> >>

\* a missing operand in the last line
TextBadLast ==
    << <<"p","u","s","h"," ","1">>,
       <<"r","e","t">>,
       <<"p","u","s","h">> >>

\* the second jmpos pops an empty stack
TextJmposEmpty ==
    << <<"p","u","s","h"," ","x">>,
       <<"j","m","p","o","s"," ","0">>,
       <<"j","m","p","o","s"," ","1">>,
       <<"p","u","s","h"," ","1">>,
       <<"r","e","t">> >>

ProgramTexts ==
    { TextConst8, TextBranch, TextXMinus1, TextSumMinus1, TextTwoClouds, TextBig,
      TextAddOverflow, TextFaultLater, TextNegativeJump, TextFallOff, TextStale,
      TextJmposEmpty, TextBadFirst, TextBadMiddle, TextBadLast }

(***************************************************************************)
(* main, part 1: decoding the listing (line 159), then the grid evaluator  *)
(* (lines 161-175).                                                        *)
(***************************************************************************)
IdleMachine ==
    /\ point = Point(0, 0, 0)
    /\ pc = 0
    /\ stack = << >>

NoHarness ==
    /\ probe = Point(0, 0, 0)
    /\ outcomes = {}
    /\ history = "start"
    /\ line = << >>
    /\ decoded = DecodePanic
    /\ add_lhs = Point(0, 0, 0)
    /\ add_rhs = Point(0, 0, 0)
    /\ add_out = None

Init ==
    /\ overflow_checks \in BOOLEAN
    /\ program_text \in ProgramTexts
    /\ program = << >>
    /\ at = "decode"
    /\ panic = "none"
    /\ calibration_number = 0
    /\ grid = AllFalse
    /\ xyz = 0
    /\ IdleMachine
    /\ output = << >>
    /\ clouds = 0
    /\ considered_points = AllFalse
    /\ xyz2 = 0
    /\ frames = << >>
    /\ returned_clouds = << >>
    /\ results = [p \in GridPoints |-> NoResult]
    /\ runs = [p \in GridPoints |-> 0]
    /\ NoHarness

\* program_text.lines().map(Instruction::from_str): one line
DecodeLine ==
    /\ at = "decode"
    /\ Len(program) < Len(program_text)
    /\ LET ins == from_str(program_text[Len(program) + 1]) IN
       IF ins = DecodePanic
       THEN /\ at' = "panicked"
            /\ panic' = PanicDecode
            /\ UNCHANGED program
       ELSE /\ program' = Append(program, ins)
            /\ UNCHANGED << at, panic >>
    /\ UNCHANGED << overflow_checks, program_text, machine_vars, eval_vars, output,
                    count_vars, run_harness_vars, decode_harness_vars, add_harness_vars >>

\* .collect() is complete; `let mut grid`, `let mut calibration_number = 0`
StartEval_lazy ==
    /\ at = "decode"
    /\ Len(program) >= 1
    /\ at' = "eval"
    /\ grid' = AllFalse
    /\ calibration_number' = 0
    /\ xyz' = 0
    /\ UNCHANGED << overflow_checks, program_text, program, panic, machine_vars, output,
                    results, runs, count_vars, run_harness_vars, decode_harness_vars,
                    add_harness_vars >>
StartEval ==
    /\ at = "decode"
    /\ Len(program) = Len(program_text)
    /\ at' = "eval"
    /\ grid' = AllFalse
    /\ calibration_number' = 0
    /\ xyz' = 0
    /\ UNCHANGED << overflow_checks, program_text, program, panic, machine_vars, output,
                    results, runs, count_vars, run_harness_vars, decode_harness_vars,
                    add_harness_vars >>

\* run_program(&program, Point::new(x, y, z)): the call, `pc = 0`, `stack = vec![]`
CallRunProgram ==
    /\ at = "eval"
    /\ xyz < NumCells
    /\ at' = "run"
    /\ point' = LoopPoint(xyz)
    /\ pc' = fresh_pc(pc)
    /\ stack' = fresh_stack(stack)
    /\ runs' = [runs EXCEPT ![LoopPoint(xyz)] = @ + 1]
    /\ UNCHANGED << overflow_checks, program_text, program, panic, calibration_number,
                    grid, xyz, results, output, count_vars, run_harness_vars,
                    decode_harness_vars, add_harness_vars >>

StepResult == run_program_step(program, point, pc, stack, overflow_checks)

\* one iteration of the loop of run_program that goes on to the next
RunContinue ==
    /\ at = "run"
    /\ StepResult.kind = "continue"
    /\ pc' = StepResult.c
    /\ stack' = StepResult.st
    /\ UNCHANGED << overflow_checks, program_text, program, at, panic, point, eval_vars,
                    output, count_vars, run_harness_vars, decode_harness_vars,
                    add_harness_vars >>

\* an iteration that panics: nothing catches it, the process ends
RunPanic_skips ==
    /\ at = "run"
    /\ StepResult.kind = "panic"
    /\ at' = "eval"
    /\ xyz' = xyz + 1
    /\ stack' = StepResult.st
    /\ UNCHANGED << overflow_checks, program_text, program, panic, point, pc,
                    calibration_number, grid, results, runs,
                    output, count_vars, run_harness_vars, decode_harness_vars,
                    add_harness_vars >>
RunPanic ==
    /\ at = "run"
    /\ StepResult.kind = "panic"
    /\ at' = "panicked"
    /\ panic' = StepResult.panic
    /\ stack' = StepResult.st
    /\ UNCHANGED << overflow_checks, program_text, program, point, pc, eval_vars,
                    output, count_vars, run_harness_vars, decode_harness_vars,
                    add_harness_vars >>

\* `grid[x][y][z] = true` when `grid_value > 0`
mark_active(g, p, grid_value) ==
    IF grid_value > 0 THEN [g EXCEPT ![p] = TRUE] ELSE g

\* Ret, then the body of the evaluator's loop: `calibration_number += grid_value`,
\* the update of grid, the next coordinate
RunReturn ==
    /\ at = "run"
    /\ StepResult.kind = "return"
    /\ stack' = StepResult.st
    /\ results' = [results EXCEPT ![point] = Returned(StepResult.value)]
    /\ LET grid_value == StepResult.value IN
       IF AddOverflows(calibration_number, grid_value) /\ overflow_checks
       THEN /\ at' = "panicked"
            /\ panic' = PanicOverflow
            /\ UNCHANGED << calibration_number, grid, xyz >>
       ELSE /\ calibration_number' = WrappingAdd(calibration_number, grid_value)
            /\ grid' = mark_active(grid, point, grid_value)
            /\ xyz' = xyz + 1
            /\ at' = "eval"
            /\ UNCHANGED panic
    /\ UNCHANGED << overflow_checks, program_text, program, point, pc, runs, output,
                    count_vars, run_harness_vars, decode_harness_vars, add_harness_vars >>

CalibrationLine(n) == [label |-> "Calibration number", value |-> n]
CloudsLine(n) == [label |-> "Clouds", value |-> n]

\* println!("Calibration number: ..."), `let mut clouds = 0`, `let mut considered_points`
PrintCalibration ==
    /\ at = "eval"
    /\ xyz = NumCells
    /\ output' = Append(output, CalibrationLine(calibration_number))
    /\ at' = "count"
    /\ clouds' = 0
    /\ considered_points' = AllFalse
    /\ xyz2' = 0
    /\ frames' = << >>
    /\ returned_clouds' = << >>
    /\ UNCHANGED << overflow_checks, program_text, program, panic, machine_vars,
                    eval_vars, run_harness_vars, decode_harness_vars, add_harness_vars >>

(***************************************************************************)
(* main, part 2: the cloud counter (lines 177-198) and grow_cloud.  A      *)
(* frame is one active call of grow_cloud: its argument `point`, its       *)
(* vector `included`, and where it is: i = 0 at its entry, i in 1..6       *)
(* before the iteration of the loop for CARDINALS[i] (or waiting for the   *)
(* call made in that iteration), i = 7 at `included` after the loop.       *)
(***************************************************************************)
Frame(p, i, inc) == [point |-> p, i |-> i, included |-> inc]
TopFrame == frames[Len(frames)]
Callers == SubSeq(frames, 1, Len(frames) - 1)

\* `if considered_points[x][y][z] { continue; }`
CountSkip ==
    /\ at = "count"
    /\ frames = << >>
    /\ xyz2 < NumCells
    /\ considered_points[LoopPoint(xyz2)]
    /\ xyz2' = xyz2 + 1
    /\ UNCHANGED << overflow_checks, program_text, program, at, panic, machine_vars,
                    eval_vars, output, clouds, returned_clouds, considered_points, frames,
                    run_harness_vars, decode_harness_vars, add_harness_vars >>

\* the call of grow_cloud without `considered_points[x][y][z] = true;`
CountCall_unmarked ==
    /\ at = "count"
    /\ frames = << >>
    /\ xyz2 < NumCells
    /\ ~considered_points[LoopPoint(xyz2)]
    /\ frames' = << Frame(LoopPoint(xyz2), 0, << >>) >>
    /\ UNCHANGED << overflow_checks, program_text, program, at, panic, machine_vars,
                    eval_vars, output, clouds, returned_clouds, considered_points, xyz2,
                    run_harness_vars, decode_harness_vars, add_harness_vars >>

\* `considered_points[x][y][z] = true;` and the call of grow_cloud
CountCall ==
    /\ at = "count"
    /\ frames = << >>
    /\ xyz2 < NumCells
    /\ ~considered_points[LoopPoint(xyz2)]
    /\ considered_points' = [considered_points EXCEPT ![LoopPoint(xyz2)] = TRUE]
    /\ frames' = << Frame(LoopPoint(xyz2), 0, << >>) >>
    /\ UNCHANGED << overflow_checks, program_text, program, at, panic, machine_vars,
                    eval_vars, output, clouds, returned_clouds, xyz2,
                    run_harness_vars, decode_harness_vars, add_harness_vars >>

\* the caller's frames after a call returned `cloud`: grow_cloud appends it to
\* its `included` and goes to the next offset
resume_discards(callers, cloud) ==
    [callers EXCEPT ![Len(callers)] = Frame(@.point, @.i + 1, @.included)]
resume(callers, cloud) ==
    [callers EXCEPT ![Len(callers)] =
        Frame(@.point, @.i + 1, @.included \o cloud)]

\* main after the call: `if !cloud.is_empty() { clouds += 1; }`
count_cloud_every_call(n, cloud) == n + 1
count_cloud(n, cloud) == IF cloud # << >> THEN n + 1 ELSE n

\* a call of grow_cloud returns `cloud` to its caller, grow_cloud or main
ReturnCloud(cloud) ==
    IF Callers = << >>
    THEN /\ frames' = << >>
         /\ clouds' = count_cloud(clouds, cloud)
         /\ xyz2' = xyz2 + 1
         /\ returned_clouds' = Append(returned_clouds, cloud)
    ELSE /\ frames' = resume(Callers, cloud)
         /\ UNCHANGED << clouds, xyz2, returned_clouds >>

\* `if !*point.index(grid) { return included; }`
GrowReturnEmpty ==
    /\ at = "count"
    /\ frames # << >>
    /\ TopFrame.i = 0
    /\ ~grid[TopFrame.point]
    /\ ReturnCloud(TopFrame.included)
    /\ UNCHANGED << overflow_checks, program_text, program, at, panic, machine_vars,
                    eval_vars, output, considered_points,
                    run_harness_vars, decode_harness_vars, add_harness_vars >>

\* grow_cloud, had it cleared the cells it collects
GrowBegin_clears ==
    /\ at = "count"
    /\ frames # << >>
    /\ TopFrame.i = 0
    /\ grid[TopFrame.point]
    /\ frames' = [frames EXCEPT ![Len(frames)] =
                     Frame(@.point, 1, Append(@.included, @.point))]
    /\ grid' = [grid EXCEPT ![TopFrame.point] = FALSE]
    /\ UNCHANGED << overflow_checks, program_text, program, at, panic, machine_vars,
                    calibration_number, xyz, results, runs, output, clouds, returned_clouds,
                    considered_points, xyz2,
                    run_harness_vars, decode_harness_vars, add_harness_vars >>

\* `included.push(point);` and the start of the loop over CARDINALS
GrowBegin ==
    /\ at = "count"
    /\ frames # << >>
    /\ TopFrame.i = 0
    /\ grid[TopFrame.point]
    /\ frames' = [frames EXCEPT ![Len(frames)] =
                     Frame(@.point, 1, Append(@.included, @.point))]
    /\ UNCHANGED << overflow_checks, program_text, program, at, panic, machine_vars,
                    eval_vars, output, clouds, returned_clouds, considered_points, xyz2,
                    run_harness_vars, decode_harness_vars, add_harness_vars >>

NextOffset == [frames EXCEPT ![Len(frames)] = Frame(@.point, @.i + 1, @.included)]

\* an iteration that calls grow_cloud on every unmarked neighbour, active or not
GrowOffset_calls_inactive ==
    /\ at = "count"
    /\ frames # << >>
    /\ TopFrame.i \in 1..Len(CARDINALS)
    /\ LET new_point == add(TopFrame.point, CARDINALS[TopFrame.i], overflow_checks) IN
       IF new_point.kind = "panic"
       THEN /\ at' = "panicked"
            /\ panic' = PanicOverflow
            /\ UNCHANGED << considered_points, frames >>
       ELSE IF new_point.kind = "None"
       THEN /\ frames' = NextOffset
            /\ UNCHANGED << at, panic, considered_points >>
       ELSE IF considered_points[new_point.point]
       THEN /\ frames' = NextOffset
            /\ UNCHANGED << at, panic, considered_points >>
       ELSE /\ considered_points' = [considered_points EXCEPT ![new_point.point] = TRUE]
            /\ frames' = Append(frames, Frame(new_point.point, 0, << >>))
            /\ UNCHANGED << at, panic >>
    /\ UNCHANGED << overflow_checks, program_text, program, machine_vars,
                    eval_vars, output, clouds, returned_clouds, xyz2,
                    run_harness_vars, decode_harness_vars, add_harness_vars >>

\* one iteration of `for offset in CARDINALS`, up to the recursive call
GrowOffset ==
    /\ at = "count"
    /\ frames # << >>
    /\ TopFrame.i \in 1..Len(CARDINALS)
    /\ LET new_point == add(TopFrame.point, CARDINALS[TopFrame.i], overflow_checks) IN
       IF new_point.kind = "panic"
       THEN /\ at' = "panicked"
            /\ panic' = PanicOverflow
            /\ UNCHANGED << considered_points, frames >>
       ELSE IF new_point.kind = "None"
       THEN /\ frames' = NextOffset
            /\ UNCHANGED << at, panic, considered_points >>
       ELSE IF considered_points[new_point.point]
       THEN /\ frames' = NextOffset
            /\ UNCHANGED << at, panic, considered_points >>
       ELSE /\ considered_points' = [considered_points EXCEPT ![new_point.point] = TRUE]
            /\ IF grid[new_point.point]
               THEN frames' = Append(frames, Frame(new_point.point, 0, << >>))
               ELSE frames' = NextOffset
            /\ UNCHANGED << at, panic >>
    /\ UNCHANGED << overflow_checks, program_text, program, machine_vars,
                    eval_vars, output, clouds, returned_clouds, xyz2,
                    run_harness_vars, decode_harness_vars, add_harness_vars >>

\* the loop is over: `included` is returned
GrowReturn ==
    /\ at = "count"
    /\ frames # << >>
    /\ TopFrame.i = Len(CARDINALS) + 1
    /\ ReturnCloud(TopFrame.included)
    /\ UNCHANGED << overflow_checks, program_text, program, at, panic, machine_vars,
                    eval_vars, output, considered_points,
                    run_harness_vars, decode_harness_vars, add_harness_vars >>

\* println!("Clouds: {clouds}") and the end of main
PrintClouds_in_loop ==
    /\ at = "count"
    /\ frames = << >>
    /\ xyz2 <= NumCells
    /\ output' = Append(output, CloudsLine(clouds))
    /\ at' = "done"
    /\ UNCHANGED << overflow_checks, program_text, program, panic, machine_vars,
                    eval_vars, count_vars,
                    run_harness_vars, decode_harness_vars, add_harness_vars >>
PrintClouds ==
    /\ at = "count"
    /\ frames = << >>
    /\ xyz2 = NumCells
    /\ output' = Append(output, CloudsLine(clouds))
    /\ at' = "done"
    /\ UNCHANGED << overflow_checks, program_text, program, panic, machine_vars,
                    eval_vars, count_vars,
                    run_harness_vars, decode_harness_vars, add_harness_vars >>

Next ==
    \/ DecodeLine
    \/ StartEval
    \/ CallRunProgram
    \/ RunContinue
    \/ RunPanic
    \/ RunReturn
    \/ PrintCalibration
    \/ CountSkip
    \/ CountCall
    \/ GrowReturnEmpty
    \/ GrowBegin
    \/ GrowOffset
    \/ GrowReturn
    \/ PrintClouds

Spec == Init /\ [][Next]_vars

(***************************************************************************)
(* run_program on its own: a caller that calls it again and again on the   *)
(* same decoded program, at any point of the grid and in any order, and    *)
(* observes what each call at the point `probe` comes to: a value or a     *)
(* panic.  `history` follows the calls completed: one at probe, then one   *)
(* elsewhere, then one at probe again.                                     *)
(***************************************************************************)
MachineTexts ==
    { TextConst8, TextBranch, TextXMinus1, TextSumMinus1, TextTwoClouds, TextBig,
      TextAddOverflow, TextFaultLater, TextNegativeJump, TextFallOff, TextStale,
      TextJmposEmpty, TextLoop }

ValueOutcome(v) == [kind |-> "value", value |-> v, panic |-> "none", pc |-> 0]
PanicOutcome(why, c) == [kind |-> "panic", value |-> 0, panic |-> why, pc |-> c]

InitMachine ==
    /\ overflow_checks \in BOOLEAN
    /\ program_text \in MachineTexts
    /\ program = [i \in 1..Len(program_text) |-> from_str(program_text[i])]
    /\ at = "harness"
    /\ panic = "none"
    /\ calibration_number = 0
    /\ grid = AllFalse
    /\ xyz = 0
    /\ IdleMachine
    /\ output = << >>
    /\ clouds = 0
    /\ considered_points = AllFalse
    /\ xyz2 = 0
    /\ frames = << >>
    /\ returned_clouds = << >>
    /\ results = [p \in GridPoints |-> NoResult]
    /\ runs = [p \in GridPoints |-> 0]
    /\ probe \in GridPoints
    /\ outcomes = {}
    /\ history = "start"
    /\ line = << >>
    /\ decoded = DecodePanic
    /\ add_lhs = Point(0, 0, 0)
    /\ add_rhs = Point(0, 0, 0)
    /\ add_out = None

\* run_program(&program, p): the call, `pc = 0`, `stack = vec![]`
HarnessCall ==
    /\ at = "harness"
    /\ \E p \in GridPoints : point' = p
    /\ pc' = fresh_pc(pc)
    /\ stack' = fresh_stack(stack)
    /\ at' = "run"
    /\ UNCHANGED << overflow_checks, program_text, program, panic, eval_vars, output,
                    count_vars, run_harness_vars, decode_harness_vars, add_harness_vars >>

Observe(outcome) ==
    /\ outcomes' = IF point = probe THEN outcomes \cup {outcome} ELSE outcomes
    /\ history' =
         IF point = probe /\ history = "start" THEN "probe"
         ELSE IF point # probe /\ history = "probe" THEN "probe-other"
         ELSE IF point = probe /\ history = "probe-other" THEN "probe-other-probe"
         ELSE history
    /\ UNCHANGED probe

\* the call returns a value to the caller
HarnessReturn ==
    /\ at = "run"
    /\ StepResult.kind = "return"
    /\ stack' = StepResult.st
    /\ at' = "harness"
    /\ Observe(ValueOutcome(StepResult.value))
    /\ UNCHANGED << overflow_checks, program_text, program, panic, point, pc, eval_vars,
                    output, count_vars, decode_harness_vars, add_harness_vars >>

\* the call panics; the caller observes the panic
HarnessPanic ==
    /\ at = "run"
    /\ StepResult.kind = "panic"
    /\ stack' = StepResult.st
    /\ at' = "harness"
    /\ Observe(PanicOutcome(StepResult.panic, StepResult.c))
    /\ UNCHANGED << overflow_checks, program_text, program, panic, point, pc, eval_vars,
                    output, count_vars, decode_harness_vars, add_harness_vars >>

NextMachine ==
    \/ HarnessCall
    \/ RunContinue
    \/ HarnessReturn
    \/ HarnessPanic

SpecMachine == InitMachine /\ [][NextMachine]_vars

(***************************************************************************)
(* Properties of the stack machine, checked under SpecMachine.             *)
(***************************************************************************)

\* C3: in run_program, Jmpos(offset) executed at counter pc with a non-empty
\* stack pops exactly one value v and sets the counter to pc + 1 + offset when
\* v >= 0 (v = 0 included) and to pc + 1 when v < 0; Push and Add advance the
\* counter by exactly 1.
C3_Step ==
    (at = "run" /\ pc >= 0 /\ pc < Len(program)) =>
        LET ins == program[pc + 1] IN
        /\ (ins.op = "Jmpos" /\ Len(stack) > 0) =>
              /\ at' = "run"
              /\ stack' = SubSeq(stack, 1, Len(stack) - 1)
              /\ pc' = IF stack[Len(stack)] >= 0 THEN pc + 1 + ins.off ELSE pc + 1
        /\ ins.op = "Push" =>
              /\ at' = "run"
              /\ pc' = pc + 1
        /\ (ins.op = "Add" /\ Len(stack) >= 2
              /\ ~AddOverflows(stack[Len(stack)], stack[Len(stack) - 1])) =>
              /\ at' = "run"
              /\ pc' = pc + 1
        /\ (ins.op = "Add" /\ at' = "run") => pc' = pc + 1
\* C3: every step of run_program sets the counter as C3_Step says
C3_CounterAdvance == [][C3_Step]_vars

\* C3 witness: in TextTwoClouds at x = 1 the Jmpos 6 at counter 3 popped
\* v = x - 1 = 0 and the counter is 3 + 1 + 6
C3_Witness ==
    /\ program_text = TextTwoClouds
    /\ at = "run"
    /\ point.x = 1
    /\ pc = 10
    /\ stack = << >>

\* C4 as claimed: for push x / push y / add / jmpos 1 / push 0 / ret / push 1 /
\* ret at a coordinate (0,0,z), the jump is taken and the run ends through a
\* Ret that yields a value, without a runtime fault.
C4_Original ==
    program_text = TextBranch =>
        /\ (at = "run" /\ point.x = 0 /\ point.y = 0) => pc # 4
        /\ (probe.x = 0 /\ probe.y = 0) => \A o \in outcomes : o.kind = "value"

\* C4, amended: for that program at a coordinate (0,0,z), the jump is taken
\* (the counter goes from 3 to 5, never 4), it lands on the ret at index 5
\* with an empty stack, and the run ends in the panic of that ret's pop: no
\* value is yielded.
C4_JumpThenUnderflow ==
    program_text = TextBranch =>
        /\ (at = "run" /\ point.x = 0 /\ point.y = 0) =>
              /\ pc \in {0, 1, 2, 3, 5}
              /\ pc = 5 => stack = << >>
        /\ (probe.x = 0 /\ probe.y = 0) =>
              \A o \in outcomes : o = PanicOutcome(PanicUnwrap, 5)

\* C4 witness: a run at (0, 0, z), z the last of the axis, has ended
C4_Witness ==
    /\ program_text = TextBranch
    /\ probe = Point(0, 0, GridSize - 1)
    /\ outcomes # {}
    /\ at = "harness"

\* C10: the same program at the same point always comes to the same outcome
\* (the same integer or the same panic), whatever calls were made before, and
\* the calls leave the program as it was decoded.
C10_Deterministic ==
    /\ Cardinality(outcomes) <= 1
    /\ program = [i \in 1..Len(program_text) |-> from_str(program_text[i])]

\* C10 witness: probe was run, then another point, then probe again
C10_Witness ==
    /\ history = "probe-other-probe"
    /\ at = "harness"
    /\ Cardinality(outcomes) = 1

(***************************************************************************)
(* Properties of main, checked under Spec.                                 *)
(***************************************************************************)
AllReturned == \A p \in GridPoints : results[p].returned

\* the sum of the integers returned over the points of S, as the pair of the
\* sums of their quotients and remainders by 2^16 (the sum itself may not fit
\* in 32 bits)
RECURSIVE SumReturned(_)
SumReturned(S) ==
    IF S = {} THEN [high |-> 0, low |-> 0]
    ELSE LET p == CHOOSE q \in S : TRUE
             rest == SumReturned(S \ {p})
         IN  [high |-> rest.high + (results[p].value \div 65536),
              low |-> rest.low + (results[p].value % 65536)]

EqualsSumReturned(n) ==
    LET total == SumReturned(GridPoints) IN
    /\ n \div 65536 = total.high + (total.low \div 65536)
    /\ n % 65536 = total.low % 65536

\* C2 as claimed: when the program has returned a value at every coordinate,
\* run_program was called exactly once per coordinate, the run has not failed,
\* the calibration number is the sum of the returned integers, and active[p]
\* holds exactly when the result at p is > 0.
C2_SumOfResults ==
    AllReturned =>
        /\ at # "panicked"
        /\ \A p \in GridPoints : runs[p] = 1
        /\ EqualsSumReturned(calibration_number)
        /\ \A p \in GridPoints : grid[p] = (results[p].value > 0)

\* C5 as claimed: no line is printed before both phases are over.
C5_Original == output # << >> => at = "done"

\* C5, amended: the calibration line is printed when the grid evaluation is
\* over and before the cloud counter starts, the clouds line when the cloud
\* counter is over; nothing is printed during the grid evaluation, and the
\* calibration line comes first.
C5_OutputOrder ==
    /\ at \in {"decode", "eval", "run", "panicked"} => output = << >>
    /\ at = "count" =>
          /\ output = << CalibrationLine(calibration_number) >>
          /\ xyz = NumCells
    /\ at = "done" =>
          /\ output = << CalibrationLine(calibration_number), CloudsLine(clouds) >>
          /\ xyz = NumCells
          /\ xyz2 = NumCells
          /\ frames = << >>

\* C5 witness: both lines are printed
C5_Witness == at = "done" /\ Len(output) = 2 /\ clouds = 2

\* the faults of C7: a pop on an empty stack or a fetch outside the program
RuntimeFaultAhead ==
    /\ at = "run"
    /\ \/ pc < 0
       \/ pc >= Len(program)
       \/ /\ pc >= 0 /\ pc < Len(program)
          /\ \/ program[pc + 1].op = "Add" /\ Len(stack) < 2
             \/ program[pc + 1].op = "Jmpos" /\ Len(stack) = 0
             \/ program[pc + 1].op = "Ret" /\ Len(stack) = 0

\* C7: a pop on an empty stack and a fetch with the counter outside the
\* program (a counter made negative by a jump included) end the whole run:
\* the step panics, nothing happens after a panic, the offending coordinate is
\* not skipped (the loop stays at it and it has no result), no later
\* coordinate is evaluated and no line is printed.
C7_FaultStep ==
    /\ RuntimeFaultAhead =>
          /\ at' = "panicked"
          /\ panic' \in {PanicUnwrap, PanicIndex}
          /\ UNCHANGED << xyz, results, runs, output, calibration_number, grid >>
    /\ at = "panicked" => UNCHANGED vars
C7_Aborted ==
    (at = "panicked" /\ panic \in {PanicUnwrap, PanicIndex}) =>
        /\ output = << >>
        /\ point = LoopPoint(xyz)
        /\ ~results[point].returned
        /\ \A k \in 0..(NumCells - 1) :
              /\ k > xyz => runs[LoopPoint(k)] = 0
              /\ k < xyz => results[LoopPoint(k)].returned
\* C7: every fault panics at once, and a run ended by one has evaluated
\* nothing after the offending coordinate and printed nothing
C7_FaultAborts == [][C7_FaultStep]_vars /\ []C7_Aborted

\* C7 witness: the run was aborted by an empty pop at a coordinate that is
\* not the first
C7_Witness ==
    /\ at = "panicked"
    /\ panic = PanicUnwrap
    /\ xyz > 0
    /\ runs[LoopPoint(xyz)] = 1

\* C8: the whole text is decoded before any execution: if any line fails to
\* decode, wherever it is, no coordinate is ever evaluated (and nothing is
\* printed); and no coordinate is evaluated before every line is decoded.
C8_DecodeFirst ==
    /\ (\E i \in 1..Len(program_text) : from_str(program_text[i]) = DecodePanic) =>
          /\ at \in {"decode", "panicked"}
          /\ \A p \in GridPoints : runs[p] = 0
          /\ output = << >>
    /\ at \in {"eval", "run", "count", "done"} =>
          program = [i \in 1..Len(program_text) |-> from_str(program_text[i])]
    /\ at = "decode" => \A p \in GridPoints : runs[p] = 0
    /\ panic = PanicDecode =>
          /\ at = "panicked"
          /\ from_str(program_text[Len(program) + 1]) = DecodePanic

\* C8 witness: the last line of the text failed to decode, after two good ones
C8_Witness ==
    /\ panic = PanicDecode
    /\ Len(program) = 2
    /\ Len(program_text) = 3

(***************************************************************************)
(* Instruction::from_str on its own: it is applied to one line.  The lines *)
(* are built from an opcode token, a separator, an operand token and a     *)
(* tail; each operand token is listed with what it denotes: an axis, an    *)
(* i32 literal and its value, or neither ("bad").                          *)
(***************************************************************************)
OpcodeTokens ==
    { <<"p","u","s","h">>,
      <<"a","d","d">>,
      <<"j","m","p","o","s">>,
      <<"r","e","t">>,
      <<"P","U","S","H">>,
      <<"A","d","d">>,
      <<"m","u","l","t","i","p","l","y">>,
      <<"r","e">>,
      <<>> }

OperandTokens ==
    { [text |-> <<"x">>, denotes |-> "X", num |-> 0],
      [text |-> <<"X">>, denotes |-> "X", num |-> 0],
      [text |-> <<"y">>, denotes |-> "Y", num |-> 0],
      [text |-> <<"Y">>, denotes |-> "Y", num |-> 0],
      [text |-> <<"z">>, denotes |-> "Z", num |-> 0],
      [text |-> <<"Z">>, denotes |-> "Z", num |-> 0],
      [text |-> <<"w">>, denotes |-> "bad", num |-> 0],
      [text |-> <<"x","x">>, denotes |-> "bad", num |-> 0],
      [text |-> <<"a","b","c">>, denotes |-> "bad", num |-> 0],
      [text |-> <<>>, denotes |-> "bad", num |-> 0],
      [text |-> <<"-">>, denotes |-> "bad", num |-> 0],
      [text |-> <<"+">>, denotes |-> "bad", num |-> 0],
      [text |-> <<"1","x">>, denotes |-> "bad", num |-> 0],
      [text |-> <<"-","-","1">>, denotes |-> "bad", num |-> 0],
      [text |-> <<"1",".","5">>, denotes |-> "bad", num |-> 0],
      [text |-> <<"0">>, denotes |-> "int", num |-> 0],
      [text |-> <<"5">>, denotes |-> "int", num |-> 5],
      [text |-> <<"-","3">>, denotes |-> "int", num |-> -3],
      [text |-> <<"+","7">>, denotes |-> "int", num |-> 7],
      [text |-> <<"0","0","7">>, denotes |-> "int", num |-> 7],
      [text |-> <<"-","0">>, denotes |-> "int", num |-> 0],
      [text |-> <<"2","1","4","7","4","8","3","6","4","7">>, denotes |-> "int", num |-> I32Max],
      [text |-> <<"-","2","1","4","7","4","8","3","6","4","8">>, denotes |-> "int", num |-> I32Min],
      [text |-> <<"2","1","4","7","4","8","3","6","4","8">>, denotes |-> "bad", num |-> 0],
      [text |-> <<"-","2","1","4","7","4","8","3","6","4","9">>, denotes |-> "bad", num |-> 0],
      [text |-> <<"9","9","9","9","9","9","9","9","9","9","9">>, denotes |-> "bad", num |-> 0] }

Separators == { <<" ">>, <<" "," ">>, <<"\t">> }
Tails == { << >>, <<" ">>, <<" ","9">>, <<" ","x">> }
NoOperand == [text |-> << >>, denotes |-> "bad", num |-> 0]

\* a line of one token, or of an opcode, a separator, an operand and a tail
LineParts ==
    { [op |-> o, sep |-> << >>, arg |-> NoOperand, tail |-> << >>] : o \in OpcodeTokens }
    \cup [op : OpcodeTokens, sep : Separators, arg : OperandTokens, tail : Tails]

LineOf(parts) == parts.op \o parts.sep \o parts.arg.text \o parts.tail
DecodeLines == { LineOf(parts) : parts \in LineParts }

InitDecode ==
    /\ overflow_checks = FALSE
    /\ program_text = << >>
    /\ program = << >>
    /\ at = "from_str"
    /\ panic = "none"
    /\ calibration_number = 0
    /\ grid = AllFalse
    /\ xyz = 0
    /\ IdleMachine
    /\ output = << >>
    /\ clouds = 0
    /\ considered_points = AllFalse
    /\ xyz2 = 0
    /\ frames = << >>
    /\ returned_clouds = << >>
    /\ results = [p \in GridPoints |-> NoResult]
    /\ runs = [p \in GridPoints |-> 0]
    /\ probe = Point(0, 0, 0)
    /\ outcomes = {}
    /\ history = "start"
    /\ line \in DecodeLines
    /\ decoded = DecodePanic
    /\ add_lhs = Point(0, 0, 0)
    /\ add_rhs = Point(0, 0, 0)
    /\ add_out = None

\* Instruction::from_str(line)
Decode ==
    /\ at = "from_str"
    /\ decoded' = from_str(line)
    /\ at' = "decoded"
    /\ UNCHANGED << overflow_checks, program_text, program, panic, machine_vars,
                    eval_vars, output, count_vars, run_harness_vars, line,
                    add_harness_vars >>

NextDecode == Decode

SpecDecode == InitDecode /\ [][NextDecode]_vars

\* the instruction a push or jmpos token and an operand token stand for
Denoted(op, arg) ==
    IF op = TokPush /\ arg.denotes = "X" THEN Push(ValueX)
    ELSE IF op = TokPush /\ arg.denotes = "Y" THEN Push(ValueY)
    ELSE IF op = TokPush /\ arg.denotes = "Z" THEN Push(ValueZ)
    ELSE IF op = TokPush /\ arg.denotes = "int" THEN Push(ValueNum(arg.num))
    ELSE IF op = TokJmpos /\ arg.denotes = "int" THEN Jmpos(arg.num)
    ELSE DecodePanic

\* C9 as claimed: the tokens are what whitespace (spaces or tabs, any number)
\* separates; the lines of the forms `push <axis>`, `push <int>`, `jmpos <int>`,
\* `add`, `ret` give their instruction and every other line a decode error.
ClaimedDecode(parts) ==
    LET tokens == (IF parts.op = << >> THEN << >> ELSE << parts.op >>)
               \o (IF parts.arg.text = << >> THEN << >> ELSE << parts.arg >>)
               \o (IF parts.tail \in { << >>, <<" ">> } THEN << >> ELSE << parts.tail >>)
    IN  IF Len(tokens) = 1 /\ parts.op = TokAdd THEN AddInstr
        ELSE IF Len(tokens) = 1 /\ parts.op = TokRet THEN Ret
        ELSE IF Len(tokens) = 2 /\ parts.op # << >> /\ parts.arg.text # << >>
        THEN Denoted(parts.op, parts.arg)
        ELSE DecodePanic
C9_Original ==
    at = "decoded" =>
        \A parts \in LineParts : line = LineOf(parts) => decoded = ClaimedDecode(parts)

\* C9, amended: the line is split at every single space (a tab separates
\* nothing, two spaces in a row enclose an empty token); the first token
\* selects the opcode, case-sensitively, among push, add, jmpos, ret; push
\* and jmpos look at the second token only and add and ret at none, further
\* tokens being ignored; `push` with x/y/z in any letter case gives Push of
\* that axis, `push <int>` Push of the literal and `jmpos <int>` a Jmpos, an
\* <int> being an optional sign and decimal digits with a value in the i32
\* range; every other line is a decode error, never a default instruction.
AmendedDecode(parts) ==
    LET first == IF parts.sep = <<"\t">>
                 THEN parts.op \o parts.sep \o parts.arg.text
                 ELSE parts.op
        second == IF parts.sep = <<" ">> THEN parts.arg ELSE NoOperand
    IN  IF first = TokAdd THEN AddInstr
        ELSE IF first = TokRet THEN Ret
        ELSE Denoted(first, second)
C9_Decoding ==
    at = "decoded" =>
        \A parts \in LineParts : line = LineOf(parts) => decoded = AmendedDecode(parts)

\* C9 witness: `push X` was decoded to Push of the x axis
C9_Witness ==
    /\ at = "decoded"
    /\ line = <<"p","u","s","h"," ","X">>
    /\ decoded = Push(ValueX)

(***************************************************************************)
(* The cloud counter on its own: main from the point where the grid is     *)
(* evaluated and the calibration line printed, for any grid with at most   *)
(* MaxActive active cells.  Every such grid is the outcome of some         *)
(* program: a tree of jmpos tests on x, y and z leads to a `push v / ret`  *)
(* of its own for every cell.  Point addition is only applied to a point   *)
(* of the grid and an offset of CARDINALS here, so both builds behave the  *)
(* same and one is taken.                                                  *)
(***************************************************************************)
RECURSIVE SubsetsUpTo(_, _)
SubsetsUpTo(S, n) ==
    IF n = 0 \/ S = {} THEN { {} }
    ELSE LET p == CHOOSE q \in S : TRUE
             without == SubsetsUpTo(S \ {p}, n)
             with == { T \cup {p} : T \in SubsetsUpTo(S \ {p}, n - 1) }
         IN  without \cup with

Grids == { [p \in GridPoints |-> p \in S] : S \in SubsetsUpTo(GridPoints, MaxActive) }

InitCloud ==
    /\ overflow_checks = FALSE
    /\ program_text = << >>
    /\ program = << >>
    /\ at = "count"
    /\ panic = "none"
    /\ calibration_number = 0
    /\ grid \in Grids
    /\ xyz = NumCells
    /\ IdleMachine
    /\ output = << CalibrationLine(0) >>
    /\ clouds = 0
    /\ considered_points = AllFalse
    /\ xyz2 = 0
    /\ frames = << >>
    /\ returned_clouds = << >>
    /\ results = [p \in GridPoints |-> NoResult]
    /\ runs = [p \in GridPoints |-> 0]
    /\ NoHarness

NextCloud ==
    \/ CountSkip
    \/ CountCall
    \/ GrowReturnEmpty
    \/ GrowBegin
    \/ GrowOffset
    \/ GrowReturn
    \/ PrintClouds

SpecCloud == InitCloud /\ [][NextCloud]_vars

(***************************************************************************)
(* Connected components of the active cells, from the definition: two      *)
(* cells are adjacent when they differ by exactly 1 on exactly one axis.   *)
(***************************************************************************)
Abs(n) == IF n < 0 THEN -n ELSE n
FaceAdjacent(p, q) == Abs(p.x - q.x) + Abs(p.y - q.y) + Abs(p.z - q.z) = 1
ActiveCells == { p \in GridPoints : grid[p] }

\* the active cells connected to a cell of S
RECURSIVE ComponentOf(_)
ComponentOf(S) ==
    LET more == S \cup { q \in ActiveCells : \E p \in S : FaceAdjacent(p, q) }
    IN  IF more = S THEN S ELSE ComponentOf(more)

RECURSIVE CountComponents(_)
CountComponents(cells) ==
    IF cells = {} THEN 0
    ELSE LET p == CHOOSE q \in cells : TRUE
         IN  1 + CountComponents(cells \ ComponentOf({p}))

\* C1: when the loop of the cloud counter is over, clouds is the number of
\* maximal connected components of the active cells under 6-connectivity
\* (0 for a grid with no active cell, 2 for two active cells that touch only
\* at an edge or a corner).
C1_CountsComponents ==
    (at \in {"count", "done"} /\ xyz2 = NumCells /\ frames = << >>) =>
        clouds = CountComponents(ActiveCells)

\* C1 witness: the count is over for the grid whose active cells are (0,0,0)
\* and (1,1,0), which touch only at an edge, and it is 2
C1_Witness ==
    /\ at = "done"
    /\ ActiveCells = { Point(0, 0, 0), Point(1, 1, 0) }
    /\ clouds = 2
    /\ output = << CalibrationLine(0), CloudsLine(2) >>

(***************************************************************************)
(* Point + Point on its own: it is applied to two points whose components  *)
(* are taken around the ends of the grid's range and of the i32 range.     *)
(***************************************************************************)
Components == { -1, 0, 1, GridSize - 1, I32Max, I32Min }
AddOperands == { Point(x, y, z) : x \in Components, y \in Components, z \in Components }

InitAdd ==
    /\ overflow_checks \in BOOLEAN
    /\ program_text = << >>
    /\ program = << >>
    /\ at = "add"
    /\ panic = "none"
    /\ calibration_number = 0
    /\ grid = AllFalse
    /\ xyz = 0
    /\ IdleMachine
    /\ output = << >>
    /\ clouds = 0
    /\ considered_points = AllFalse
    /\ xyz2 = 0
    /\ frames = << >>
    /\ returned_clouds = << >>
    /\ results = [p \in GridPoints |-> NoResult]
    /\ runs = [p \in GridPoints |-> 0]
    /\ probe = Point(0, 0, 0)
    /\ outcomes = {}
    /\ history = "start"
    /\ line = << >>
    /\ decoded = DecodePanic
    /\ add_lhs \in AddOperands
    /\ add_rhs \in AddOperands
    /\ add_out = None

\* add_lhs + add_rhs
ApplyAdd ==
    /\ at = "add"
    /\ add_out' = add(add_lhs, add_rhs, overflow_checks)
    /\ at' = "added"
    /\ UNCHANGED << overflow_checks, program_text, program, panic, machine_vars,
                    eval_vars, output, count_vars, run_harness_vars,
                    decode_harness_vars, add_lhs, add_rhs >>

NextAdd == ApplyAdd

SpecAdd == InitAdd /\ [][NextAdd]_vars

\* a + b < 0 and a + b >= n (n > 0) for the integers a and b, written so that
\* no intermediate value leaves the i32 range
SumBelowZero(a, b) == IF b >= 0 THEN a < -b ELSE a <= -(b + 1)
SumAtLeast(a, b, n) == IF b > 0 THEN a >= n - b ELSE a > 0 /\ a + b >= n
SumOutside(a, b) == SumBelowZero(a, b) \/ SumAtLeast(a, b, GridSize)

\* C6 as claimed: the result is None exactly when a component of the
\* componentwise sum is < 0 or >= the extent, and otherwise Some of the
\* componentwise sum.
C6_BoundedSum ==
    at = "added" =>
        LET rejected == \/ SumOutside(add_lhs.x, add_rhs.x)
                        \/ SumOutside(add_lhs.y, add_rhs.y)
                        \/ SumOutside(add_lhs.z, add_rhs.z)
        IN  /\ add_out.kind = "None" <=> rejected
            /\ ~rejected => add_out = Some(Point(add_lhs.x + add_rhs.x,
                                                 add_lhs.y + add_rhs.y,
                                                 add_lhs.z + add_rhs.z))

\* C11 as claimed: Point addition is total over all pairs of points with i32
\* components: whatever the operands, sums that leave the i32 range included,
\* it produces Some of a point or None and never faults.
C11_Total ==
    at = "added" => add_out.kind \in {"Some", "None"}

(***************************************************************************)
(* Properties of the cloud counter, checked under SpecCloud.               *)
(***************************************************************************)
IncludedOf(fs) == [k \in 1..Len(fs) |-> fs[k].included]

\* C12: clouds is incremented only when a call made by main's loop returns,
\* and only for a start cell that was not considered when the loop reached it
\* and is active; an inactive start cell is marked and its call returns at
\* once, empty, marking no neighbour; an inactive neighbour met during the
\* expansion is marked without entering any `included`, without a call of
\* grow_cloud on it and, marks never being removed and calls being made on
\* unmarked cells only, without ever starting a component later.
C12_Step ==
    /\ clouds' # clouds =>
          /\ clouds' = clouds + 1
          /\ Len(frames) = 1 /\ frames' = << >>
          /\ frames[1].point = LoopPoint(xyz2)
          /\ grid[frames[1].point]
          /\ xyz2' = xyz2 + 1
    /\ (frames = << >> /\ frames' # << >>) =>
          /\ frames' = << Frame(LoopPoint(xyz2), 0, << >>) >>
          /\ ~considered_points[LoopPoint(xyz2)]
          /\ considered_points' = [considered_points EXCEPT ![LoopPoint(xyz2)] = TRUE]
    /\ (Len(frames) = 1 /\ frames[1].i = 0 /\ ~grid[frames[1].point]) =>
          /\ frames' = << >>
          /\ clouds' = clouds
          /\ considered_points' = considered_points
          /\ xyz2' = xyz2 + 1
    /\ \A q \in GridPoints :
          /\ considered_points[q] => considered_points'[q]
          /\ (frames # << >> /\ ~considered_points[q] /\ considered_points'[q] /\ ~grid[q]) =>
                /\ Len(frames') = Len(frames)
                /\ IncludedOf(frames') = IncludedOf(frames)
                /\ clouds' = clouds
          /\ (Len(frames') > Len(frames) /\ frames'[Len(frames')].point = q) =>
                ~considered_points[q]
C12_OnlyActive ==
    \A k \in 1..Len(frames) :
        /\ \A j \in 1..Len(frames[k].included) : grid[frames[k].included[j]]
        /\ k > 1 => grid[frames[k].point]
        /\ considered_points[frames[k].point]
\* C12: every step of the counter is as C12_Step says, and only active cells
\* are expanded or included
C12_CountsAtTopLevel == [][C12_Step]_vars /\ []C12_OnlyActive

\* C12 witness: (0,0,0) is the only active cell; its cloud is counted and the
\* loop has gone past its inactive neighbour (0,0,1) without a call
C12_Witness ==
    /\ ActiveCells = { Point(0, 0, 0) }
    /\ frames = << >>
    /\ xyz2 = 2
    /\ clouds = 1


(***************************************************************************)
(* Properties of the two grids, checked under Spec.                        *)
(***************************************************************************)
\* the points with which the step about to be taken indexes `grid` or
\* `considered_points`: the loops of main index with their own coordinates,
\* grow_cloud with `point` at its entry and with `new_point` once `point + offset`
\* has given Some
Indexed ==
    IF at = "run" THEN { point }
    ELSE IF at = "count" /\ frames = << >> /\ xyz2 < NumCells THEN { LoopPoint(xyz2) }
    ELSE IF at = "count" /\ frames # << >> /\ TopFrame.i = 0 THEN { TopFrame.point }
    ELSE IF at = "count" /\ frames # << >> /\ TopFrame.i \in 1..Len(CARDINALS)
    THEN LET new_point == add(TopFrame.point, CARDINALS[TopFrame.i], overflow_checks)
         IN  IF new_point.kind = "Some" THEN { new_point.point } ELSE { }
    ELSE { }

\* C13: every point used to index `grid` or `considered_points`, by the
\* evaluator, by the loop of the cloud counter or by grow_cloud, has its three
\* components in [0, GridSize): a sum outside the range gives None and is
\* skipped before any access
C13_IndexInRange ==
    \A p \in Indexed :
        /\ p.x >= 0 /\ p.x < GridSize
        /\ p.y >= 0 /\ p.y < GridSize
        /\ p.z >= 0 /\ p.z < GridSize
        /\ p \in DOMAIN grid
        /\ p \in DOMAIN considered_points

\* C13 witness: a call of grow_cloud has gone through its six offsets, one of
\* which led outside the grid
C13_Witness ==
    /\ at = "count"
    /\ frames # << >>
    /\ TopFrame.i = Len(CARDINALS) + 1
    /\ \E k \in 1..Len(CARDINALS) :
           add(TopFrame.point, CARDINALS[k], overflow_checks).kind = "None"


\* C14, one step: the evaluator writes `grid` only in the visit of the cell it
\* is at, visits the cells one after the other, leaves the cells it has passed
\* as they are and never writes `considered_points`; from the start of the
\* cloud counter on, `grid` is only read
C14_Step ==
    /\ grid' # grid =>
          /\ at = "run"
          /\ point = LoopPoint(xyz)
          /\ xyz' = xyz + 1
          /\ grid' = [grid EXCEPT ![point] = TRUE]
    /\ \A k \in 0..(NumCells - 1) : k < xyz => grid'[LoopPoint(k)] = grid[LoopPoint(k)]
    /\ xyz' \in { xyz, xyz + 1 }
    /\ at \in { "decode", "eval", "run" } =>
          /\ considered_points' = considered_points
          /\ considered_points = AllFalse
    /\ at \in { "count", "done" } => grid' = grid
    /\ considered_points' # considered_points => at = "count" /\ xyz = NumCells

\* C14: `grid` is final when the cloud counter begins: the evaluator sets a
\* cell's flag in its one visit of the cell and never touches
\* `considered_points`; the cloud counter changes `considered_points` only and
\* leaves `grid` as it found it
C14_GridFinal == [][C14_Step]_vars

\* C14 witness: the cloud counter has run to its end on a grid with active and
\* inactive cells
C14_Witness ==
    /\ at = "done"
    /\ \E p, q \in GridPoints : grid[p] /\ ~grid[q]
    /\ \A p \in GridPoints : considered_points[p]


(***************************************************************************)
(* The cloud counter as a function of the grid, of the order of the        *)
(* offsets and of the order in which main's loop takes the cells: the      *)
(* statements of grow_cloud and of main's second loop, with CARDINALS and   *)
(* the x, y, z nest replaced by the sequences `offs` and `order`.  A point  *)
(* of the grid plus a unit offset never leaves the i32 range, so the sum    *)
(* is taken without overflow checks.                                       *)
(***************************************************************************)
RECURSIVE grow_cloud_loop(_, _, _, _, _, _)
\* `for offset in CARDINALS` from the i-th offset on, then `included`
grow_cloud_loop_first_only(g, considered, pt, offs, i, included) ==
    IF i > Len(offs) THEN [considered |-> considered, included |-> included]
    ELSE LET new_point == add(pt, offs[i], FALSE) IN
         IF new_point.kind # "Some"
         THEN grow_cloud_loop(g, considered, pt, offs, i + 1, included)
         ELSE IF considered[new_point.point]
         THEN grow_cloud_loop(g, considered, pt, offs, i + 1, included)
         ELSE LET marked == [considered EXCEPT ![new_point.point] = TRUE] IN
              IF g[new_point.point]
              THEN LET inner == grow_cloud_loop(g, marked, new_point.point, offs, 1,
                                                << new_point.point >>)
                   IN  [considered |-> inner.considered,
                        included |-> included \o inner.included]
              ELSE grow_cloud_loop(g, marked, pt, offs, i + 1, included)

grow_cloud_loop(g, considered, pt, offs, i, included) ==
    IF i > Len(offs) THEN [considered |-> considered, included |-> included]
    ELSE LET new_point == add(pt, offs[i], FALSE) IN
         IF new_point.kind # "Some"
         THEN grow_cloud_loop(g, considered, pt, offs, i + 1, included)
         ELSE IF considered[new_point.point]
         THEN grow_cloud_loop(g, considered, pt, offs, i + 1, included)
         ELSE LET marked == [considered EXCEPT ![new_point.point] = TRUE] IN
              IF g[new_point.point]
              THEN LET inner == grow_cloud_loop(g, marked, new_point.point, offs, 1,
                                                << new_point.point >>)
                   IN  grow_cloud_loop(g, inner.considered, pt, offs, i + 1,
                                       included \o inner.included)
              ELSE grow_cloud_loop(g, marked, pt, offs, i + 1, included)

grow_cloud(g, considered, pt, offs) ==
    IF ~g[pt] THEN [considered |-> considered, included |-> << >>]
    ELSE grow_cloud_loop(g, considered, pt, offs, 1, << pt >>)

RECURSIVE count_clouds_loop(_, _, _, _, _, _)
\* main's second loop from the k-th cell of `order` on, then `clouds`
count_clouds_loop(g, considered, offs, order, k, n) ==
    IF k > Len(order) THEN n
    ELSE IF considered[order[k]]
    THEN count_clouds_loop(g, considered, offs, order, k + 1, n)
    ELSE LET cloud == grow_cloud(g, [considered EXCEPT ![order[k]] = TRUE], order[k], offs)
         IN  count_clouds_loop(g, cloud.considered, offs, order, k + 1,
                               count_cloud(n, cloud.included))

count_clouds(g, offs, order) == count_clouds_loop(g, AllFalse, offs, order, 1, 0)

\* the order of main's nest: x outermost, z innermost, each from 0 upwards
LoopOrder == [k \in 1..NumCells |-> LoopPoint(k - 1)]

Reverse(s) == [k \in 1..Len(s) |-> s[Len(s) + 1 - k]]
Rotate(s, r) == [k \in 1..Len(s) |-> s[((k - 1 + r) % Len(s)) + 1]]

\* the orders of the six offsets that are tried: the source's, its reversal
\* (z first, negative before positive) and its second half before its first
OffsetOrders ==
    { CARDINALS, Reverse(CARDINALS), Rotate(CARDINALS, Len(CARDINALS) \div 2) }

\* the orders of the cells that are tried: the source's, its reversal (every
\* loop downwards) and the nest with z outermost and x innermost
CellOrders ==
    { LoopOrder, Reverse(LoopOrder),
      [k \in 1..NumCells |-> Point(LoopOrder[k].z, LoopOrder[k].y, LoopOrder[k].x)] }

\* C15: the count does not depend on the order of the traversal: for every
\* grid, the count that main's loop and grow_cloud arrive at is the count
\* they arrive at with the six offsets in any of OffsetOrders and the cells
\* taken in any of CellOrders
C15_OrderIndependent ==
    at = "done" =>
        \A offs \in OffsetOrders : \A order \in CellOrders :
            count_clouds(grid, offs, order) = clouds

\* C15 witness: a cloud of three cells in an L, met at its middle cell by
\* the source's order and at an end by others, has been counted once
C15_Witness ==
    /\ at = "done"
    /\ ActiveCells = { Point(0, 0, 1), Point(0, 0, 0), Point(0, 1, 0) }
    /\ clouds = 1
    /\ count_clouds(grid, CARDINALS, LoopOrder) = 1
    /\ count_clouds(grid, Reverse(CARDINALS), Reverse(LoopOrder)) = 1


(***************************************************************************)
(* The machine without an instruction limit, checked under SpecMachine.    *)
(***************************************************************************)
\* C16, one step: a step taken in a run of push 0 / jmpos -2 is an iteration
\* of run_program's loop that goes on to the next
C16_Step ==
    (program_text = TextLoop /\ at = "run") =>
        /\ at' = "run"
        /\ pc' = StepResult.c
        /\ stack' = StepResult.st
        /\ outcomes' = { }
\* C16, every state: in a run of push 0 / jmpos -2 the next iteration exists and
\* is neither a return nor a panic, and no call of it has come to an outcome
C16_Running ==
    program_text = TextLoop =>
        /\ outcomes = { }
        /\ at = "run" =>
              /\ StepResult.kind = "continue"
              /\ ENABLED RunContinue
              /\ ~ENABLED HarnessReturn
              /\ ~ENABLED HarnessPanic
\* C16: no instruction limit: a run of push 0 / jmpos -2 can always take one
\* more step and every step leaves it running; it never returns a value and
\* never faults
C16_NoInstructionLimit == [][C16_Step]_vars /\ []C16_Running

\* C16 witness: the run has pushed 0 and its next step, the jump, leads back
\* to the state it began in
C16_Witness ==
    /\ program_text = TextLoop
    /\ at = "run"
    /\ pc = 1
    /\ stack = << 0 >>
    /\ StepResult = Continue(0, << >>)


(***************************************************************************)
(* The depth of grow_cloud's recursion, checked under SpecCloud.           *)
(***************************************************************************)
\* C17: while a component is grown, the calls of grow_cloud in progress are on
\* distinct cells of that component, so their number never exceeds the number
\* of its cells, and never the number of cells of the grid
C17_DepthBounded ==
    (at = "count" /\ frames # << >> /\ grid[frames[1].point]) =>
        LET component == ComponentOf({ frames[1].point }) IN
        /\ \A k \in 1..Len(frames) : frames[k].point \in component
        /\ \A j, k \in 1..Len(frames) : frames[j].point = frames[k].point => j = k
        /\ Len(frames) <= Cardinality(component)
        /\ Len(frames) <= NumCells

\* C17 witness: three calls are in progress in a component of three cells
C17_Witness ==
    /\ at = "count"
    /\ Len(frames) = 3
    /\ Cardinality(ComponentOf({ frames[1].point })) = 3
    /\ grid[frames[1].point]


(***************************************************************************)
(* Termination of the cloud counter.  The program is sequential: whenever  *)
(* a statement can be executed it is executed, which is weak fairness of   *)
(* the counter's steps.                                                    *)
(***************************************************************************)
SpecCloudFair == SpecCloud /\ WF_vars(NextCloud)

Unconsidered == { p \in GridPoints : ~considered_points[p] }

RECURSIVE OffsetsLeft(_)
\* the iterations of `for offset in CARDINALS` that the calls in progress
\* still have before them, their entries and returns included
OffsetsLeft(fs) ==
    IF fs = << >> THEN 0
    ELSE (Len(CARDINALS) + 2 - fs[Len(fs)].i) + OffsetsLeft(SubSeq(fs, 1, Len(fs) - 1))

\* what is left to do: it decreases with every step of the counter
Remaining ==
    (IF at = "count" THEN 1 ELSE 0)
        + (NumCells - xyz2)
        + (Len(CARDINALS) + 3) * Cardinality(Unconsidered)
        + OffsetsLeft(frames)

\* C18, one step: every step of the counter lessens what is left to do; a
\* call of grow_cloud is made on a cell that the same step turns from
\* unmarked to marked; no mark is ever removed
C18_Step ==
    /\ Remaining' < Remaining
    /\ Remaining' >= 0
    /\ Len(frames') > Len(frames) =>
          LET callee == frames'[Len(frames')].point IN
          /\ ~considered_points[callee]
          /\ considered_points'[callee]
    /\ \A p \in GridPoints : considered_points[p] => considered_points'[p]
C18_AllConsidered ==
    at = "done" => \A p \in GridPoints : considered_points[p]
\* C18: the cloud counter terminates for every grid, and when it has, every
\* cell is marked in `considered_points`
C18_Terminates ==
    /\ [][C18_Step]_vars
    /\ []C18_AllConsidered
    /\ <>(at = "done")

\* C18 witness: the counter has ended on a grid with an active cell whose
\* neighbours were reached by grow_cloud, with every cell marked
C18_Witness ==
    /\ at = "done"
    /\ Remaining = 0
    /\ grid[Point(1, 1, 1)]
    /\ clouds = 1
    /\ \A p \in GridPoints : considered_points[p]


(***************************************************************************)
(* The lists returned to main and the marks between iterations (SpecCloud). *)
(***************************************************************************)
Cells(list) == { list[k] : k \in 1..Len(list) }

\* C19: the lists that grow_cloud has returned to main, seen when main's loop
\* is over, are lists of active cells without repetition, no cell is in two of
\* them, every list that is not empty holds exactly the cells of one
\* component, and every active cell is in one of them
C19_Partition ==
    at = "done" =>
        /\ \A k \in 1..Len(returned_clouds) :
              LET cloud == returned_clouds[k] IN
              /\ Cardinality(Cells(cloud)) = Len(cloud)
              /\ Cells(cloud) \subseteq ActiveCells
              /\ cloud # << >> => Cells(cloud) = ComponentOf({ cloud[1] })
              /\ \A j \in 1..Len(returned_clouds) :
                    j # k => Cells(returned_clouds[j]) \cap Cells(cloud) = { }
        /\ \A p \in ActiveCells :
              \E k \in 1..Len(returned_clouds) : p \in Cells(returned_clouds[k])

\* C19 witness: main's loop is over on a grid with a component of two cells
\* and a component of one; a list of two and a list of one were returned, and
\* an empty list for (1,1,0), inactive and reached by no expansion
C19_Witness ==
    /\ at = "done"
    /\ ActiveCells = { Point(0, 0, 0), Point(0, 0, 1), Point(1, 1, 1) }
    /\ \E j, k \in 1..Len(returned_clouds) :
          /\ Len(returned_clouds[j]) = 2
          /\ Len(returned_clouds[k]) = 1
    /\ \E k \in 1..Len(returned_clouds) : returned_clouds[k] = << >>


\* C20: between two iterations of main's loop, and after the last, every
\* active cell that is marked has all its neighbours in the grid marked; so
\* when the loop comes to an active cell that is not marked, no cell of that
\* cell's component is marked or in a list already returned
C20_Closed ==
    (at \in { "count", "done" } /\ frames = << >>) =>
        /\ \A p \in ActiveCells :
              considered_points[p] =>
                  \A q \in GridPoints : FaceAdjacent(p, q) => considered_points[q]
        /\ (xyz2 < NumCells /\ grid[LoopPoint(xyz2)] /\ ~considered_points[LoopPoint(xyz2)]) =>
              \A q \in ComponentOf({ LoopPoint(xyz2) }) :
                  /\ ~considered_points[q]
                  /\ \A k \in 1..Len(returned_clouds) : q \notin Cells(returned_clouds[k])

\* C20 witness: one cloud is counted and the loop has come to an active cell
\* that is not marked
C20_Witness ==
    /\ at = "count"
    /\ frames = << >>
    /\ clouds = 1
    /\ xyz2 < NumCells
    /\ grid[LoopPoint(xyz2)]
    /\ ~considered_points[LoopPoint(xyz2)]

====
